---------------------------- MODULE Spec2Model ----------------------------
(***************************************************************************)
(* Notifaya: the registration API and the Chainhook webhook of index.js,   *)
(* and the donation contract of donation/contracts/donation.clar.          *)
(*                                                                         *)
(* Strings are sequences of one-character strings, so that startsWith and  *)
(* the e-mail regular expression are computed, not assumed.  A request     *)
(* field that is absent from the JSON body (JavaScript undefined) is the   *)
(* value Undefined.                                                        *)
(*                                                                         *)
(* Every await of a handler is a step boundary: between two awaits a       *)
(* handler runs to completion (Node's single thread), at an await other    *)
(* handlers may run.  fs.readFile and fs.writeFile are each one step.      *)
(*                                                                         *)
(* The specifications share the actions:                                   *)
(*   Spec           two concurrent register calls, a few invalid bodies;   *)
(*   SpecOneClient  one register call at a time, every sample body;        *)
(*   SpecWebhook    the webhook, with one client registering valid bodies; *)
(*   SpecStatus     GET /api/status, with one client registering;          *)
(*   SpecAmount     the webhook with transfers of small and large amounts. *)
(* In these the file system works (ok = TRUE): the ok parameter of the     *)
(* load and save steps is what a failing read or write sets FALSE, in      *)
(*   SpecFaults     the webhook and one client, reads and writes may fail; *)
(*   SpecStorage    the status call and one client, the same;              *)
(*   SpecReaders    the webhook, the status call and one client, the same; *)
(*   SpecLive       SpecFaults where every awaited read and sink call      *)
(*                  eventually returns or fails.                           *)
(* A write that fails leaves the file as it was.                           *)
(*                                                                         *)
(* Number(amount) / 1_000_000 is computed as IEEE 754 binary64 does, by    *)
(* long division on the digits of the amount, and shown as                 *)
(* Number::toString shows it.                                              *)
(*                                                                         *)
(* The donation contract is a state machine of its own on the STX ledger,  *)
(* its data-var and its map: SpecDonation lets any principal call donate.  *)
(* A call is one step (a transaction is atomic) and a call that returns    *)
(* (err ...) leaves no change behind.                                      *)
(*                                                                         *)
(* The variables marked "history" record what a call observed; no action   *)
(* of the program reads them.                                              *)
(***************************************************************************)
EXTENDS Integers, Sequences, FiniteSets, TLC

\* ------------------------------------------------------------------ bounds

\* Largest value of the wall clock read by new Date().
MaxTime == 1

\* Number of POST /api/register requests the model lets arrive.
MaxCalls == 3

\* The same, in the specification where the webhook runs too.
MaxCallsWebhook == 2

\* ----------------------------------------------------------------- strings

Undefined == <<"undefined">>

StartsWith(s, prefix) ==
    /\ s # Undefined
    /\ Len(s) >= Len(prefix)
    /\ \A i \in 1..Len(prefix) : s[i] = prefix[i]

\* !value for a string or undefined: undefined and "" are falsy.
Falsy(v) == v = Undefined \/ v = <<>>

\* [^\s@]
NotSpaceOrAt(c) == c # " " /\ c # "@"

\* Mutant of EmailRegexTest: the pattern lacks the "\.[^\s@]+" part.
EmailRegexNoTld(email) ==
    \E i \in 1..Len(email) :
        /\ email[i] = "@"
        /\ 1 < i
        /\ i < Len(email)
        /\ \A k \in 1..Len(email) : k # i => NotSpaceOrAt(email[k])

\* /^[^\s@]+@[^\s@]+\.[^\s@]+$/.test(email)
EmailRegexTest(email) ==
    \E i, j \in 1..Len(email) :
        /\ email[i] = "@"
        /\ email[j] = "."
        /\ 1 < i
        /\ i + 1 < j
        /\ j < Len(email)
        /\ \A k \in 1..Len(email) : k # i => NotSpaceOrAt(email[k])

\* -------------------------------------------------------- request inputs

AddrST1 == <<"S", "T", "1">>
AddrSP2 == <<"S", "P", "2">>
AddrBad == <<"S", "X", "3">>
AddrLow == <<"s", "t", "1">>

MailA   == <<"a", "@", "b", ".", "c">>
MailD   == <<"d", "@", "b", ".", "c">>
MailNoDot == <<"a", "@", "b">>
MailNoAt  == <<"a", "b", ".", "c">>
MailSpace == <<"a", " ", "@", "b", ".", "c">>
MailTwoAt == <<"a", "@", "@", "b", ".", "c">>

ValidAddresses == {AddrST1, AddrSP2}
ValidEmails    == {MailA, MailD}
InvalidEmails  == {MailNoDot, MailNoAt, MailSpace, MailTwoAt}

\* Request bodies of the two concurrent clients of Spec.
SomeAddresses  == ValidAddresses \cup {AddrBad}
SomeEmails     == ValidEmails \cup {MailNoDot}

\* Request bodies of the single client of SpecOneClient.
AnyAddresses   == ValidAddresses \cup {Undefined, <<>>, AddrBad, AddrLow}
AnyEmails      == ValidEmails \cup InvalidEmails \cup {Undefined, <<>>}

\* --------------------------------------------------------------- messages

MsgRequired   == "Address and email are required"
MsgBadAddress == "Invalid Stacks address format"
MsgBadEmail   == "Invalid email format"
MsgCreated    == "Registration successful! You'll be notified of incoming STX transfers."
MsgUpdated    == "Email updated successfully!"
MsgUnchanged  == "Address already registered with this email"
MsgFailed     == "Failed to register"

\* ------------------------------------------------------------------ state

RegProcs == {"r1", "r2"}

NoTime == -1
NoCall == [none |-> TRUE]

VARIABLES
    fileExists,   \* registrations.json exists
    file,         \* its parsed content: a sequence of registrations
    now,          \* the wall clock
    calls,        \* number of register requests received so far
    rpc,          \* per register call: "idle", "load" or "save"
    rreq,         \* its request body {address, email}
    rlocal,       \* its registrations array (after the load)
    rmsg,         \* the message it answers once the save succeeds
    rbefore,      \* history: the registry on disk when it was read
    rprev,        \* history: the call completed last when this one arrived
    rover,        \* history: a call that completed while this one ran
    last,         \* history: the register call answered last
    wpc,          \* the webhook call: "idle", "load" or "send"
    wpayload,     \* its request body
    wmap,         \* its addressMap
    wpos,         \* the event whose notification is being sent
    wres,         \* the status it answered (0: not answered)
    wbefore,      \* history: the registry on disk when it was read
    sinkLog,      \* history: the sink calls of the webhook call, in order
    wthrew,       \* history: the outer catch of the webhook call ran
    wsent,        \* history: the responses the webhook call has sent
    spc,          \* the status call: "idle" or "load"
    sres,         \* history: what the status call answered last
    registered,   \* history: the addresses a register call answered 200 for
    persisted,    \* history: the array written by the last successful save
    stx_balance,  \* the STX ledger: the micro-STX each principal holds
    total_donations,  \* the data-var of donation.clar
    donations,    \* its map, a function on the principals that have an entry
    dlog          \* history: the donate calls, each with its response

regVars == <<fileExists, file, now, calls, rpc, rreq, rlocal, rmsg, rbefore, rprev,
             rover, last>>

hookVars == <<wpc, wpayload, wmap, wpos, wres, wbefore, sinkLog, wthrew,
              wsent>>

statVars == <<spc, sres>>

histVars == <<registered, persisted>>

donVars == <<stx_balance, total_donations, donations, dlog>>

vars == <<regVars, hookVars, statVars, histVars, donVars>>


\* ------------------------------------------------------- registry helpers

\* loadRegistrations(): the parsed file, or [] when readFile or JSON.parse
\* throws (the file does not exist yet, or the read fails: ok = FALSE).
LoadRegistrations(ok) == IF ok /\ fileExists THEN file ELSE <<>>

\* The registry on disk, as a later successful read would return it.
Registry == IF fileExists THEN file ELSE <<>>

\* Mutant of Find: the lookup compares the wrong field (r.email).
FindByEmail(registrations, address) ==
    IF \E i \in 1..Len(registrations) : registrations[i].email = address
    THEN CHOOSE i \in 1..Len(registrations) : registrations[i].email = address
    ELSE 0

\* registrations.find(r => r.address === address): the index of the first
\* match, 0 when there is none.
Find(registrations, address) ==
    IF \E i \in 1..Len(registrations) : registrations[i].address = address
    THEN CHOOSE i \in 1..Len(registrations) :
            /\ registrations[i].address = address
            /\ \A k \in 1..(i - 1) : registrations[k].address # address
    ELSE 0

\* Mutant of UpdateEmail: the changed registration is appended, the old one
\* is left in the array.
UpdateByAppend(registrations, i, email, time) ==
    Append(registrations,
           [registrations[i] EXCEPT !.email = email, !.updatedAt = time])

\* Mutant of UpdateEmail: the entry is replaced by a fresh registration.
UpdateRecreates(registrations, i, email, time) ==
    [registrations EXCEPT ![i] = [address |-> registrations[i].address,
                                  email |-> email,
                                  createdAt |-> time, updatedAt |-> time]]

\* existing.email = email; existing.updatedAt = new Date().toISOString()
UpdateEmail(registrations, i, email, time) ==
    [registrations EXCEPT ![i] = [@ EXCEPT !.email = email, !.updatedAt = time]]

\* registrations.push({address, email, createdAt: new Date().toISOString()})
PushNew(registrations, address, email, time) ==
    Append(registrations,
           [address |-> address, email |-> email,
            createdAt |-> time, updatedAt |-> NoTime])

Addresses(registrations) ==
    {registrations[i].address : i \in 1..Len(registrations)}

EmailOf(registrations, address) ==
    registrations[Find(registrations, address)].email

\* --------------------------------------------------- request validation

\* Mutant of ValidationError: the prefix check looks at the first letter only.
ValidationErrorFirstLetter(address, email) ==
    IF Falsy(address) \/ Falsy(email) THEN MsgRequired
    ELSE IF ~StartsWith(address, <<"S">>) THEN MsgBadAddress
    ELSE IF ~EmailRegexTest(email) THEN MsgBadEmail
    ELSE ""

\* Mutant of ValidationError: the email is not tested against the regular
\* expression.
ValidationErrorSkipsRegex(address, email) ==
    IF Falsy(address) \/ Falsy(email) THEN MsgRequired
    ELSE IF ~StartsWith(address, <<"S", "T">>) /\ ~StartsWith(address, <<"S", "P">>)
         THEN MsgBadAddress
    ELSE ""

\* The three checks of POST /api/register in order: the error message of the
\* first one that fails, "" when the body passes.
ValidationError(address, email) ==
    IF Falsy(address) \/ Falsy(email) THEN MsgRequired
    ELSE IF ~StartsWith(address, <<"S", "T">>) /\ ~StartsWith(address, <<"S", "P">>)
         THEN MsgBadAddress
    ELSE IF ~EmailRegexTest(email) THEN MsgBadEmail
    ELSE ""

\* ------------------------------------------------------------ responses

\* What a later call remembers of a call answered 200.
Summary(call) ==
    IF call = NoCall \/ call.status # 200 THEN NoCall
    ELSE [address |-> call.address, email |-> call.email,
          size |-> call.sizeAfter]

\* The record a registry holds for an address: its fields, NoCall when the
\* address is not registered.
EntryOf(registrations, address) ==
    IF Find(registrations, address) = 0 THEN NoCall
    ELSE registrations[Find(registrations, address)]

\* res.status(status).json(body) of register call p: the call is over.  The
\* history records what the call observed of the registry it read (before)
\* and of the registry on disk when it answers (after), and which calls it
\* followed or overlapped.
Respond(p, address, email, status, body, read, wrote, before, after) ==
    /\ last' = [proc |-> p, address |-> address, email |-> email,
                status |-> status, body |-> body,
                read |-> read, wrote |-> wrote,
                sizeBefore |-> Len(before), sizeAfter |-> Len(after),
                entryBefore |-> EntryOf(before, address),
                entryAfter |-> EntryOf(after, address),
                addrsAfter |-> Addresses(after),
                prev |-> rprev[p], over |-> rover[p]]
    /\ registered' = IF status = 200 THEN registered \cup {address}
                                      ELSE registered
    /\ rpc' = [rpc EXCEPT ![p] = "idle"]
    /\ rreq' = [rreq EXCEPT ![p] = NoCall]
    /\ rlocal' = [rlocal EXCEPT ![p] = <<>>]
    /\ rmsg' = [rmsg EXCEPT ![p] = ""]
    /\ rbefore' = [rbefore EXCEPT ![p] = <<>>]
    /\ rprev' = [rprev EXCEPT ![p] = NoCall]
    /\ rover' = [q \in RegProcs |->
                    IF q # p /\ rpc[q] # "idle" /\ status = 200
                    THEN [address |-> address, email |-> email,
                          size |-> Len(after)]
                    ELSE IF q = p THEN NoCall ELSE rover[q]]

\* ------------------------------------------------- POST /api/register

\* The handler up to its first await: validation, then the call of
\* loadRegistrations().
RegisterReceive(p, address, email) ==
    /\ rpc[p] = "idle"
    /\ UNCHANGED <<hookVars, statVars, persisted, donVars>>
    /\ calls' = calls + 1
    /\ IF ValidationError(address, email) # ""
       THEN /\ Respond(p, address, email, 400,
                       ValidationError(address, email),
                       FALSE, FALSE, <<>>, Registry)
            /\ UNCHANGED <<fileExists, file, now>>
       ELSE /\ rpc' = [rpc EXCEPT ![p] = "load"]
            /\ rreq' = [rreq EXCEPT ![p] = [address |-> address, email |-> email]]
            /\ rprev' = [rprev EXCEPT ![p] =
                            IF \A q \in RegProcs : rpc[q] = "idle"
                            THEN Summary(last) ELSE NoCall]
            /\ rover' = [rover EXCEPT ![p] = NoCall]
            /\ UNCHANGED <<fileExists, file, now, rlocal, rmsg, rbefore, last,
                           registered>>

\* Mutant of Upsert: the same-email shortcut is missing, a registered address
\* is always rewritten.
UpsertAlwaysWrites(registrations, address, email, time) ==
    LET existing == Find(registrations, address)
    IN  IF existing # 0
        THEN [registrations |-> UpdateEmail(registrations, existing, email, time),
              save |-> TRUE, message |-> MsgUpdated]
        ELSE [registrations |-> PushNew(registrations, address, email, time),
              save |-> TRUE, message |-> MsgCreated]

\* Mutant of Upsert: the same-email branch stamps updatedAt and saves before
\* it answers that nothing changed.
UpsertStampsFirst(registrations, address, email, time) ==
    LET existing == Find(registrations, address)
    IN  IF existing # 0
        THEN [registrations |-> UpdateEmail(registrations, existing, email, time),
              save |-> TRUE,
              message |-> IF registrations[existing].email # email
                          THEN MsgUpdated ELSE MsgUnchanged]
        ELSE [registrations |-> PushNew(registrations, address, email, time),
              save |-> TRUE, message |-> MsgCreated]

\* Mutant of Upsert: the update branch answers with the message of the
\* creation branch.
UpsertOneMessage(registrations, address, email, time) ==
    LET existing == Find(registrations, address)
    IN  IF existing # 0
        THEN IF registrations[existing].email # email
             THEN [registrations |-> UpdateEmail(registrations, existing, email, time),
                   save |-> TRUE, message |-> MsgCreated]
             ELSE [registrations |-> registrations,
                   save |-> FALSE, message |-> MsgUnchanged]
        ELSE [registrations |-> PushNew(registrations, address, email, time),
              save |-> TRUE, message |-> MsgCreated]

\* Lines 111-130, the decision taken on the loaded array: the array as the
\* handler leaves it in memory, whether it is saved, and the message of the
\* 200 response.
Upsert(registrations, address, email, time) ==
    LET existing == Find(registrations, address)
    IN  IF existing # 0
        THEN IF registrations[existing].email # email
             THEN [registrations |-> UpdateEmail(registrations, existing, email, time),
                   save |-> TRUE, message |-> MsgUpdated]
             ELSE [registrations |-> registrations,
                   save |-> FALSE, message |-> MsgUnchanged]
        ELSE [registrations |-> PushNew(registrations, address, email, time),
              save |-> TRUE, message |-> MsgCreated]

\* loadRegistrations() returns; find, then update / no change / push, up to
\* the await of saveRegistrations() or the response.
RegisterLoad(p, ok) ==
    /\ rpc[p] = "load"
    /\ UNCHANGED <<calls, hookVars, statVars, persisted, donVars>>
    /\ LET u == Upsert(LoadRegistrations(ok), rreq[p].address, rreq[p].email, now)
       IN  IF u.save
           THEN /\ rlocal' = [rlocal EXCEPT ![p] = u.registrations]
                /\ rmsg' = [rmsg EXCEPT ![p] = u.message]
                /\ rbefore' = [rbefore EXCEPT ![p] = Registry]
                /\ rpc' = [rpc EXCEPT ![p] = "save"]
                /\ UNCHANGED <<fileExists, file, now, rreq, rprev, rover, last,
                               registered>>
           ELSE /\ Respond(p, rreq[p].address, rreq[p].email, 200, u.message,
                           TRUE, FALSE, Registry, Registry)
                /\ UNCHANGED <<fileExists, file, now>>

\* Mutant of RegisterSave: the array of a write that failed stays visible to
\* later reads.
RegisterSaveLeaks(p, ok) ==
    /\ rpc[p] = "save"
    /\ fileExists' = TRUE
    /\ file' = rlocal[p]
    /\ IF ok
       THEN /\ persisted' = rlocal[p]
            /\ Respond(p, rreq[p].address, rreq[p].email, 200, rmsg[p],
                       TRUE, TRUE, rbefore[p], rlocal[p])
       ELSE /\ Respond(p, rreq[p].address, rreq[p].email, 500, MsgFailed,
                       TRUE, FALSE, rbefore[p], rlocal[p])
            /\ UNCHANGED persisted
    /\ UNCHANGED <<now, calls, hookVars, statVars, donVars>>

\* saveRegistrations() returns: the whole array has replaced the file and the
\* call answers 200, or writeFile threw (ok = FALSE), the file is as it was
\* and the catch answers 500.
RegisterSave(p, ok) ==
    /\ rpc[p] = "save"
    /\ IF ok
       THEN /\ fileExists' = TRUE
            /\ file' = rlocal[p]
            /\ persisted' = rlocal[p]
            /\ Respond(p, rreq[p].address, rreq[p].email, 200, rmsg[p],
                       TRUE, TRUE, rbefore[p], rlocal[p])
       ELSE /\ Respond(p, rreq[p].address, rreq[p].email, 500, MsgFailed,
                       TRUE, FALSE, rbefore[p], Registry)
            /\ UNCHANGED <<fileExists, file, persisted>>
    /\ UNCHANGED <<now, calls, hookVars, statVars, donVars>>

\* Time passes.
Tick ==
    /\ now < MaxTime
    /\ now' = now + 1
    /\ UNCHANGED <<fileExists, file, calls, rpc, rreq, rlocal, rmsg, rbefore,
                   rprev, rover, last, hookVars, statVars, histVars, donVars>>

\* ------------------------------------------------------ webhook payloads

Sender == <<"S", "P", "9">>

\* An event of a transaction receipt.  hasData is FALSE when the event has
\* no data object.
Transfer(recipient, amount) ==
    [type |-> "STXTransferEvent", hasData |-> TRUE,
     sender |-> Sender, recipient |-> recipient, amount |-> amount]

EvT1 == Transfer(AddrST1, <<0, 5, 0>>)
EvT2 == Transfer(AddrSP2, <<0, 1, 500000>>)
EvOther == [type |-> "FTTransferEvent", hasData |-> TRUE,
            sender |-> Sender, recipient |-> AddrST1, amount |-> <<0, 0, 7>>]
EvNoData == [type |-> "STXTransferEvent", hasData |-> FALSE,
             sender |-> <<>>, recipient |-> <<>>, amount |-> <<0, 0, 0>>]

EventKinds == {EvT1, EvT2, EvOther, EvNoData}

\* A transaction: each has* flag says whether the field is present.
Tx(hash, events) ==
    [hasMetadata |-> TRUE, hasReceipt |-> TRUE, hasEvents |-> TRUE,
     events |-> events, hasId |-> TRUE, hash |-> hash]

TxNoMetadata == [Tx("0xa", <<EvT1>>) EXCEPT !.hasMetadata = FALSE]
TxNoReceipt  == [Tx("0xb", <<EvT1>>) EXCEPT !.hasReceipt = FALSE]
TxNoEvents   == [Tx("0xc", <<>>) EXCEPT !.hasEvents = FALSE]
TxNoId       == [Tx("", <<EvT1>>) EXCEPT !.hasId = FALSE]

Block(transactions) == [hasTransactions |-> TRUE, transactions |-> transactions]
BlockNoTransactions == [hasTransactions |-> FALSE, transactions |-> <<>>]

Payload(apply) ==
    [hasRollback |-> FALSE, rollback |-> <<>>, hasApply |-> TRUE, apply |-> apply]

\* All the events in one transaction of one block.
OneTx(events) == Payload(<<Block(<<Tx("0x1", events)>>)>>)

\* One transaction per event, in one block.
TxEach(events) ==
    Payload(<<Block([i \in 1..Len(events) |->
                        Tx(IF i = 1 THEN "0x1" ELSE "0x2", <<events[i]>>)])>>)

\* One block per event.
BlockEach(events) ==
    Payload([i \in 1..Len(events) |->
                Block(<<Tx(IF i = 1 THEN "0x1" ELSE "0x2", <<events[i]>>)>>)])

WithRollback(payload, rollback) ==
    [payload EXCEPT !.hasRollback = TRUE, !.rollback = rollback]

NoApply == [hasRollback |-> FALSE, rollback |-> <<>>, hasApply |-> FALSE, apply |-> <<>>]

EventSeqs ==
    {<<>>} \cup {<<x>> : x \in EventKinds}
           \cup {<<x, y>> : x \in EventKinds, y \in EventKinds}

\* The request bodies the webhook receives.
Payloads ==
    {OneTx(es) : es \in EventSeqs}
    \cup {TxEach(<<x, y>>) : x \in {EvT1, EvT2}, y \in {EvT1, EvT2}}
    \cup {BlockEach(<<x, y>>) : x \in {EvT1, EvT2}, y \in {EvT1, EvT2}}
    \cup {OneTx(<<EvT1, EvT1, EvT2>>), OneTx(<<EvT1, EvNoData, EvT2>>)}
    \cup {WithRollback(OneTx(<<EvT1>>), <<"block">>),
          WithRollback(OneTx(<<EvT1, EvT2>>), <<"block">>),
          WithRollback(NoApply, <<"block">>),
          WithRollback(OneTx(<<EvT1>>), <<>>)}
    \cup {NoApply, Payload(<<>>)}
    \cup {Payload(<<BlockNoTransactions, Block(<<Tx("0x1", <<EvT1>>)>>)>>),
          Payload(<<Block(<<TxNoMetadata, Tx("0x1", <<EvT1>>)>>)>>),
          Payload(<<Block(<<TxNoReceipt, Tx("0x1", <<EvT2>>)>>)>>),
          Payload(<<Block(<<TxNoEvents, Tx("0x1", <<EvT1>>)>>)>>),
          Payload(<<Block(<<TxNoId, Tx("0x1", <<EvT2>>)>>)>>)}

\* ------------------------------------------ POST /webhook/stx-received

NoMap == [a \in {} |-> <<>>]

\* Mutant of IsRollback: a rollback is ignored only when the batch applies
\* nothing.
IsRollbackWithoutApply(payload) ==
    payload.hasRollback /\ Len(payload.rollback) > 0 /\ ~payload.hasApply

\* payload.rollback && payload.rollback.length > 0
IsRollback(payload) == payload.hasRollback /\ Len(payload.rollback) > 0

\* !payload.apply || payload.apply.length === 0
NothingToApply(payload) == ~payload.hasApply \/ Len(payload.apply) = 0

\* Mutant of AddressMap: the map is built from the first registration only.
AddressMapFirst(registrations) ==
    [a \in {registrations[1].address} |-> registrations[1].email]

\* new Map(registrations.map(r => [r.address, r.email])): a later entry of
\* the array replaces an earlier one with the same address.
AddressMap(registrations) ==
    [a \in Addresses(registrations) |->
        registrations[CHOOSE i \in 1..Len(registrations) :
                        /\ registrations[i].address = a
                        /\ \A k \in (i + 1)..Len(registrations) :
                                registrations[k].address # a].email]

\* tx.metadata?.receipt?.events || []
EventsOf(tx) ==
    IF tx.hasMetadata /\ tx.hasReceipt /\ tx.hasEvents THEN tx.events ELSE <<>>

\* 1 STX = 1,000,000 microSTX.
MicroPerSTX == 1000000

\* The significand of a JavaScript Number (IEEE 754 binary64), in bits.
SignificandBits == 53

\* An amount of microSTX is the decimal string of the payload cut in three
\* groups of six digits, <<g, w, f>>: (g * 10^6 + w) STX and f microSTX.
\* The amounts of the model are below 2^53, where Number(amount) is the
\* amount itself.
IsZero(a) == a = <<0, 0, 0>>

Succ(a) ==
    IF a[3] < MicroPerSTX - 1 THEN <<a[1], a[2], a[3] + 1>>
    ELSE IF a[2] < MicroPerSTX - 1 THEN <<a[1], a[2] + 1, 0>>
    ELSE <<a[1] + 1, 0, 0>>

Pred(a) ==
    IF a[3] > 0 THEN <<a[1], a[2], a[3] - 1>>
    ELSE IF a[2] > 0 THEN <<a[1], a[2] - 1, MicroPerSTX - 1>>
    ELSE <<a[1] - 1, MicroPerSTX - 1, MicroPerSTX - 1>>

\* A Number is [exp, sig]: the binary exponent of its leading bit and its
\* significand, leading bit first (zero has no bit).

\* The binary digits of g * 10^6 + w, leading bit first.
RECURSIVE WholeBits(_, _)
WholeBits(g, w) ==
    IF g = 0 /\ w = 0 THEN <<>>
    ELSE Append(WholeBits(g \div 2, ((g % 2) * MicroPerSTX + w) \div 2), w % 2)

\* Binary long division: the bits of r / d after those in st.sig, of which
\* the next has weight 2^k, up to width + 1 bits from the leading one, and
\* the remainder the division is left with.
RECURSIVE QuotientBits(_, _, _, _, _)
QuotientBits(r, d, k, st, width) ==
    IF Len(st.sig) = width + 1
    THEN [exp |-> st.exp, sig |-> st.sig, rest |-> r]
    ELSE LET bit == IF 2 * r >= d THEN 1 ELSE 0
             rest == 2 * r - bit * d
         IN  IF st.sig = <<>> /\ bit = 0
             THEN QuotientBits(rest, d, k - 1, st, width)
             ELSE QuotientBits(rest, d, k - 1,
                               [exp |-> IF st.sig = <<>> THEN k ELSE st.exp,
                                sig |-> Append(st.sig, bit)],
                               width)

\* The bits plus one in the last place; one bit longer when all were ones.
RECURSIVE Increment(_)
Increment(bits) ==
    IF bits = <<>> THEN <<1>>
    ELSE IF bits[Len(bits)] = 0 THEN [bits EXCEPT ![Len(bits)] = 1]
    ELSE Append(Increment(SubSeq(bits, 1, Len(bits) - 1)), 0)

\* a / d in floating point with a significand of width bits: the quotient
\* rounded to the nearest Number, ties to the even significand.  off is the
\* distance from the Number to the exact quotient, in units of 1 / (2 * d)
\* of the last place.
RoundedQuotient(a, d, width) ==
    IF IsZero(a) THEN [exp |-> 0, sig |-> <<>>, off |-> 0]
    ELSE LET whole == WholeBits(a[1], a[2])
             q == QuotientBits(a[3], d, -1,
                               [exp |-> Len(whole) - 1, sig |-> whole], width)
             kept == SubSeq(q.sig, 1, width)
             tail == q.sig[width + 1] * d + q.rest
             up == tail > d \/ (tail = d /\ kept[width] = 1)
             inc == Increment(kept)
         IN  IF ~up THEN [exp |-> q.exp, sig |-> kept, off |-> tail]
             ELSE IF Len(inc) > width
                  THEN [exp |-> q.exp + 1, sig |-> SubSeq(inc, 1, width),
                        off |-> 2 * d - tail]
             ELSE [exp |-> q.exp, sig |-> inc, off |-> 2 * d - tail]

\* Number(amount) / 1_000_000
Divide(amount) == RoundedQuotient(amount, MicroPerSTX, SignificandBits)

\* Two quotients are the same Number.
SameNumber(p, q) == p.exp = q.exp /\ p.sig = q.sig

RECURSIVE StripZeros(_)
StripZeros(m) == IF m > 0 /\ m % 10 = 0 THEN StripZeros(m \div 10) ELSE m

RECURSIVE CountDigits(_)
CountDigits(m) == IF m < 10 THEN 1 ELSE 1 + CountDigits(m \div 10)

\* The digits of a group of six that count when digits stand before it.
Trimmed(m) == 6 - (CountDigits(m) - CountDigits(StripZeros(m)))

\* The number of significant digits of the decimal a / 1,000,000.
SignificantDigits(a) ==
    IF a[3] # 0
    THEN IF a[1] # 0 THEN CountDigits(a[1]) + 6 + Trimmed(a[3])
         ELSE IF a[2] # 0 THEN CountDigits(a[2]) + Trimmed(a[3])
         ELSE CountDigits(StripZeros(a[3]))
    ELSE IF a[2] # 0
    THEN IF a[1] # 0 THEN CountDigits(a[1]) + Trimmed(a[2])
         ELSE CountDigits(StripZeros(a[2]))
    ELSE CountDigits(StripZeros(a[1]))

\* `${amountSTX}`: Number::toString gives the decimal with the fewest
\* digits among those that read back as the same Number, and of several
\* the one closest to the Number.  A decimal with more than six fractional
\* digits has more digits than amount / 1,000,000, which reads back as the
\* quotient, so the candidates are the m / 1,000,000 whose quotient is the
\* same Number; the quotient grows with m and the last place of a Number
\* below 2^53 / 10^6 is worth less than two millionths, so the candidates
\* are at most one microSTX away.  The result is m.
NumberToString(amount) ==
    LET near == <<amount, Succ(amount)>>
                \o (IF IsZero(amount) THEN <<>> ELSE <<Pred(amount)>>)
        q == <<Divide(amount), Divide(Succ(amount))>>
             \o (IF IsZero(amount) THEN <<>> ELSE <<Divide(Pred(amount))>>)
        cands == {i \in DOMAIN near : SameNumber(q[i], q[1])}
        fewest == {i \in cands : \A o \in cands :
                      SignificantDigits(near[i]) <= SignificantDigits(near[o])}
        closest == {i \in fewest : \A o \in fewest : q[i].off <= q[o].off}
    IN  near[CHOOSE i \in closest :
                \A o \in closest : o = i \/ near[i][3] % 2 = 0]

\* const amountSTX = Number(amount) / 1_000_000, as the text of the
\* notification shows it: the decimal in STX, cut like the amount.
AmountSTX(amount) == NumberToString(amount)

\* The mail of the notification for the event at pos: its recipient, and
\* what its text shows.
Message(payload, map, pos) ==
    LET tx == payload.apply[pos[1]].transactions[pos[2]]
        event == EventsOf(tx)[pos[3]]
    IN  [to |-> map[event.recipient],
         sender |-> event.sender,
         recipient |-> event.recipient,
         amountSTX |-> AmountSTX(event.amount),
         hash |-> tx.hash]

\* Mutant of Scan: without "if (!block.transactions) continue" the for...of
\* over the missing array throws.
RECURSIVE ScanStrict(_, _, _, _, _)
ScanStrict(payload, map, b, t, e) ==
    IF b > Len(payload.apply) THEN [kind |-> "end"]
    ELSE IF ~payload.apply[b].hasTransactions THEN [kind |-> "throw"]
    ELSE IF t > Len(payload.apply[b].transactions)
         THEN ScanStrict(payload, map, b + 1, 1, 1)
    ELSE LET tx == payload.apply[b].transactions[t]
             events == EventsOf(tx)
         IN  IF e > Len(events) THEN ScanStrict(payload, map, b, t + 1, 1)
             ELSE IF events[e].type # "STXTransferEvent"
                  THEN ScanStrict(payload, map, b, t, e + 1)
             ELSE IF ~events[e].hasData THEN [kind |-> "throw"]
             ELSE IF events[e].recipient \notin DOMAIN map
                  THEN ScanStrict(payload, map, b, t, e + 1)
             ELSE IF ~tx.hasId THEN ScanStrict(payload, map, b, t, e + 1)
             ELSE [kind |-> "send", pos |-> <<b, t, e>>]

\* The three nested loops from event e of transaction t of block b on, up to
\* the next point where the handler leaves them: the call of the sink for a
\* transfer to a registered recipient ("send"), a TypeError thrown to the
\* outer catch by an event without data ("throw"), or the end of the batch
\* ("end").  A TypeError inside the inner try (no transaction_identifier) is
\* caught there and the loop goes on.
RECURSIVE Scan(_, _, _, _, _)
Scan(payload, map, b, t, e) ==
    IF b > Len(payload.apply) THEN [kind |-> "end"]
    ELSE IF ~payload.apply[b].hasTransactions
            \/ t > Len(payload.apply[b].transactions)
         THEN Scan(payload, map, b + 1, 1, 1)
    ELSE LET tx == payload.apply[b].transactions[t]
             events == EventsOf(tx)
         IN  IF e > Len(events) THEN Scan(payload, map, b, t + 1, 1)
             ELSE IF events[e].type # "STXTransferEvent"
                  THEN Scan(payload, map, b, t, e + 1)
             ELSE IF ~events[e].hasData THEN [kind |-> "throw"]
             ELSE IF events[e].recipient \notin DOMAIN map
                  THEN Scan(payload, map, b, t, e + 1)
             ELSE IF ~tx.hasId THEN Scan(payload, map, b, t, e + 1)
             ELSE [kind |-> "send", pos |-> <<b, t, e>>]

\* res.sendStatus(status): the webhook call is over.  wsent counts the
\* responses of the call, from 0 when the call arrives (wpc = "idle").
HookAnswer(status) ==
    /\ wpc' = "idle"
    /\ wres' = status
    /\ wpos' = <<0, 0, 0>>
    /\ wsent' = (IF wpc = "idle" THEN 0 ELSE wsent) + 1

\* res.sendStatus(200)
HookRespond == HookAnswer(200)

\* Mutant of StatusAfter: the outer catch answers 500.
StatusAfterCatch500(kind) == IF kind = "throw" THEN 500 ELSE 200

\* What the handler answers once the loops are left: the outer catch only
\* logs, and res.sendStatus(200) follows the try in both cases.
StatusAfter(kind) == 200

\* History: the email the registry on disk holds for the recipient of the
\* event at pos, Undefined when it holds none.
EmailOnDisk(payload, pos) ==
    LET recipient ==
            EventsOf(payload.apply[pos[1]].transactions[pos[2]])[pos[3]].recipient
    IN  IF recipient \in Addresses(Registry)
        THEN EntryOf(Registry, recipient).email
        ELSE Undefined

\* The sink calls the loops make from (b, t, e) on when none is awaited.
RECURSIVE AllSends(_, _, _, _, _, _)
AllSends(payload, map, b, t, e, log) ==
    LET s == Scan(payload, map, b, t, e)
    IN  IF s.kind = "send"
        THEN AllSends(payload, map, s.pos[1], s.pos[2], s.pos[3] + 1,
                      Append(log, [pos |-> s.pos,
                                   message |-> Message(payload, map, s.pos),
                                   outcome |-> "pending",
                                   disk |-> EmailOnDisk(payload, s.pos)]))
        ELSE [log |-> log, kind |-> s.kind]

\* Mutant of HookContinue: the sink call is not awaited, the loops go on
\* and the call answers while the sink calls are pending.
HookContinueNoAwait(payload, map, b, t, e, log) ==
    LET all == AllSends(payload, map, b, t, e, log)
    IN  /\ HookAnswer(StatusAfter(all.kind))
        /\ wthrew' = (all.kind = "throw")
        /\ sinkLog' = all.log

\* The loops run on from (b, t, e): the sink is called and awaited, or the
\* batch is over and the call answers.  Each sink call is logged with its
\* message, its outcome and the email on disk when it was made.
HookContinue(payload, map, b, t, e, log) ==
    LET s == Scan(payload, map, b, t, e)
    IN  IF s.kind = "send"
        THEN /\ wpc' = "send"
             /\ wpos' = s.pos
             /\ wres' = 0
             /\ wthrew' = FALSE
             /\ wsent' = IF wpc = "idle" THEN 0 ELSE wsent
             /\ sinkLog' = Append(log, [pos |-> s.pos,
                                        message |-> Message(payload, map, s.pos),
                                        outcome |-> "pending",
                                        disk |-> EmailOnDisk(payload, s.pos)])
        ELSE /\ HookAnswer(StatusAfter(s.kind))
             /\ wthrew' = (s.kind = "throw")
             /\ sinkLog' = log

\* Mutant of WebhookReceive: the "return" before res.sendStatus(200) of the
\* rollback check is missing, so the handler answers and goes on.
WebhookReceiveNoReturn(payload) ==
    /\ wpc = "idle"
    /\ wpayload' = payload
    /\ wmap' = NoMap
    /\ wbefore' = <<>>
    /\ sinkLog' = <<>>
    /\ wthrew' = FALSE
    /\ IF NothingToApply(payload)
       THEN HookRespond
       ELSE /\ wpc' = "load"
            /\ wres' = IF IsRollback(payload) THEN 200 ELSE 0
            /\ wsent' = IF IsRollback(payload) THEN 1 ELSE 0
            /\ wpos' = <<0, 0, 0>>
    /\ UNCHANGED <<regVars, statVars, histVars, donVars>>

\* The handler up to its first await: the rollback check, the apply check,
\* then the call of loadRegistrations().
WebhookReceive(payload) ==
    /\ wpc = "idle"
    /\ wpayload' = payload
    /\ wmap' = NoMap
    /\ wbefore' = <<>>
    /\ sinkLog' = <<>>
    /\ wthrew' = FALSE
    /\ IF IsRollback(payload) \/ NothingToApply(payload)
       THEN HookRespond
       ELSE /\ wpc' = "load"
            /\ wres' = 0
            /\ wsent' = 0
            /\ wpos' = <<0, 0, 0>>
    /\ UNCHANGED <<regVars, statVars, histVars, donVars>>

\* Mutant of WebhookLoad: the array that was read is written back, which
\* creates the file when it is missing.
WebhookLoadWritesBack(ok) ==
    /\ wpc = "load"
    /\ wbefore' = Registry
    /\ fileExists' = TRUE
    /\ file' = LoadRegistrations(ok)
    /\ LET registrations == LoadRegistrations(ok)
       IN  IF Len(registrations) = 0
           THEN /\ HookRespond
                /\ UNCHANGED <<wmap, sinkLog, wthrew>>
           ELSE /\ wmap' = AddressMap(registrations)
                /\ HookContinue(wpayload, AddressMap(registrations), 1, 1, 1, sinkLog)
    /\ UNCHANGED <<wpayload, now, calls, rpc, rreq, rlocal, rmsg, rbefore,
                   rprev, rover, last, statVars, histVars, donVars>>

\* loadRegistrations() returns: an empty registry answers at once, otherwise
\* the addressMap is built and the loops start.
WebhookLoad(ok) ==
    /\ wpc = "load"
    /\ wbefore' = Registry
    /\ LET registrations == LoadRegistrations(ok)
       IN  IF Len(registrations) = 0
           THEN /\ HookRespond
                /\ UNCHANGED <<wmap, sinkLog, wthrew>>
           ELSE /\ wmap' = AddressMap(registrations)
                /\ HookContinue(wpayload, AddressMap(registrations), 1, 1, 1, sinkLog)
    /\ UNCHANGED <<wpayload, regVars, statVars, histVars, donVars>>

\* Mutant of WebhookSinkReturn: the rejection is not caught by the inner try
\* and ends the batch in the outer catch.
WebhookSinkReturnAborts(ok) ==
    /\ wpc = "send"
    /\ IF ok
       THEN HookContinue(wpayload, wmap, wpos[1], wpos[2], wpos[3] + 1,
                         [sinkLog EXCEPT ![Len(sinkLog)].outcome = "sent"])
       ELSE /\ HookRespond
            /\ sinkLog' = [sinkLog EXCEPT ![Len(sinkLog)].outcome = "failed"]
            /\ wthrew' = TRUE
    /\ UNCHANGED <<wpayload, wmap, wbefore, regVars, statVars,
                   histVars, donVars>>

\* Mutant of WebhookSinkReturn: the addressMap is rebuilt from the file
\* before the loops go on.
WebhookSinkReturnReloads(ok) ==
    /\ wpc = "send"
    /\ HookContinue(wpayload, AddressMap(Registry), wpos[1], wpos[2], wpos[3] + 1,
                    [sinkLog EXCEPT ![Len(sinkLog)].outcome =
                        IF ok THEN "sent" ELSE "failed"])
    /\ UNCHANGED <<wpayload, wmap, wbefore, regVars, statVars,
                   histVars, donVars>>

\* The awaited sink call resolves (ok) or rejects: the rejection is caught
\* and logged, and in both cases the loops go on with the next event.
WebhookSinkReturn(ok) ==
    /\ wpc = "send"
    /\ HookContinue(wpayload, wmap, wpos[1], wpos[2], wpos[3] + 1,
                    [sinkLog EXCEPT ![Len(sinkLog)].outcome =
                        IF ok THEN "sent" ELSE "failed"])
    /\ UNCHANGED <<wpayload, wmap, wbefore, regVars, statVars,
                   histVars, donVars>>

\* ------------------------------------------------------- GET /api/status

\* Mutant of StatusCount: the count is the number of distinct emails.
StatusCountEmails(registrations) ==
    Cardinality({registrations[i].email : i \in 1..Len(registrations)})

\* registrations.length
StatusCount(registrations) == Len(registrations)

\* The handler up to its await: the call of loadRegistrations().
StatusReceive ==
    /\ spc = "idle"
    /\ spc' = "load"
    /\ sres' = NoCall
    /\ UNCHANGED <<regVars, hookVars, histVars, donVars>>

\* loadRegistrations() returns and the handler answers res.json(...), which
\* sends status 200.  The fields under "at" are history: the registry on
\* disk, the last array saved and the addresses registered at that moment,
\* and whether a register call was in flight.
StatusLoad(ok) ==
    /\ spc = "load"
    /\ spc' = "idle"
    /\ sres' = [code |-> 200,
                status |-> "running",
                registrations |-> StatusCount(LoadRegistrations(ok)),
                at |-> [read |-> ok,
                        entries |-> Len(Registry),
                        saved |-> Len(persisted),
                        distinct |-> Cardinality(registered),
                        quiet |-> \A p \in RegProcs : rpc[p] = "idle",
                        lastStatus |-> IF last = NoCall THEN 0 ELSE last.status]]
    /\ UNCHANGED <<regVars, hookVars, histVars, donVars>>

\* ---------------------------------------------------------- specification

\* ------------------------------------------------- contracts/donation.clar

\* Number of calls of donate the model lets arrive.
MaxDonateCalls == 3

\* The deployer and two other accounts.
Deployer == "deployer"
Principals == {Deployer, "donor1", "donor2"}

\* (define-constant contract-owner tx-sender): the principal that deploys.
contract_owner == Deployer

\* (define-constant donation-amount u1000000)
donation_amount == 1000000

\* (define-constant err-insufficient-amount (err u100)); a response is
\* (ok value) or (err value).
Ok(value) == [isOk |-> TRUE, value |-> value]
Err(value) == [isOk |-> FALSE, value |-> value]
err_insufficient_amount == Err(100)

\* (define-map donations principal uint) holds no entry at deployment.
NoDonations == [p \in {} |-> 0]

\* (default-to u0 (map-get? donations donor))
get_donor(map, donor) == IF donor \in DOMAIN map THEN map[donor] ELSE 0

\* (map-set donations donor amount)
map_set(map, donor, amount) ==
    [p \in DOMAIN map \cup {donor} |-> IF p = donor THEN amount ELSE map[p]]

\* (stx-transfer? amount sender recipient) for a sender that is tx-sender:
\* (err u3) for an amount of zero, (err u2) when sender and recipient are
\* the same principal, (err u1) when the sender holds less than amount,
\* and otherwise (ok true) with the ledger after the transfer.
stx_transfer(amount, sender, recipient, ledger) ==
    IF amount = 0 THEN [response |-> Err(3), ledger |-> ledger]
    ELSE IF sender = recipient THEN [response |-> Err(2), ledger |-> ledger]
    ELSE IF ledger[sender] < amount THEN [response |-> Err(1), ledger |-> ledger]
    ELSE [response |-> Ok(TRUE),
          ledger |-> [ledger EXCEPT ![sender] = @ - amount,
                                    ![recipient] = @ + amount]]

\* What a donate call can observe or change.
ChainState == [balance |-> stx_balance,
               total |-> total_donations,
               donations |-> donations]

\* The end of a donate call: an (err ...) response rolls back every change
\* of the call, an (ok ...) response commits them.
Commit(caller, response, ledger, total, map) ==
    LET after == IF response.isOk
                 THEN [balance |-> ledger, total |-> total, donations |-> map]
                 ELSE ChainState
    IN  /\ stx_balance' = after.balance
        /\ total_donations' = after.total
        /\ donations' = after.donations
        /\ dlog' = Append(dlog, [caller |-> caller,
                                 isOk |-> response.isOk,
                                 value |-> response.value,
                                 before |-> ChainState,
                                 after |-> after])

\* Mutant of donate: the entry of the donor is set to donation-amount
\* instead of being increased by it.
donateOverwrites(caller) ==
    /\ Len(dlog) < MaxDonateCalls
    /\ LET donor == caller
           transfer == stx_transfer(donation_amount, donor, contract_owner,
                                    stx_balance)
       IN  IF ~(stx_balance[donor] >= donation_amount)
           THEN Commit(caller, err_insufficient_amount, stx_balance,
                       total_donations, donations)
           ELSE IF ~transfer.response.isOk
           THEN Commit(caller, transfer.response, stx_balance,
                       total_donations, donations)
           ELSE Commit(caller, Ok(TRUE), transfer.ledger,
                       total_donations + donation_amount,
                       map_set(donations, donor, donation_amount))
    /\ UNCHANGED <<regVars, hookVars, statVars, histVars>>

\* Mutant of donate: without the asserts! the balance is checked by
\* stx-transfer? only.
donateSkipsAssert(caller) ==
    /\ Len(dlog) < MaxDonateCalls
    /\ LET donor == caller
           current_donation == get_donor(donations, donor)
           transfer == stx_transfer(donation_amount, donor, contract_owner,
                                    stx_balance)
       IN  IF ~transfer.response.isOk
           THEN Commit(caller, transfer.response, stx_balance,
                       total_donations, donations)
           ELSE Commit(caller, Ok(TRUE), transfer.ledger,
                       total_donations + donation_amount,
                       map_set(donations, donor,
                               current_donation + donation_amount))
    /\ UNCHANGED <<regVars, hookVars, statVars, histVars>>

\* (define-public (donate)) called by caller (tx-sender): asserts! returns
\* err-insufficient-amount, try! returns the error of stx-transfer?, and
\* otherwise the map and the total are increased and the call returns
\* (ok true).  The print only emits an event.  The sums are far below the
\* 2^128 at which a uint addition aborts.  The transaction fee the chain
\* charges the caller is outside the contract and is not modelled.
donate(caller) ==
    /\ Len(dlog) < MaxDonateCalls
    /\ LET donor == caller
           current_donation == get_donor(donations, donor)
           transfer == stx_transfer(donation_amount, donor, contract_owner,
                                    stx_balance)
       IN  IF ~(stx_balance[donor] >= donation_amount)
           THEN Commit(caller, err_insufficient_amount, stx_balance,
                       total_donations, donations)
           ELSE IF ~transfer.response.isOk
           THEN Commit(caller, transfer.response, stx_balance,
                       total_donations, donations)
           ELSE Commit(caller, Ok(TRUE), transfer.ledger,
                       total_donations + donation_amount,
                       map_set(donations, donor,
                               current_donation + donation_amount))
    /\ UNCHANGED <<regVars, hookVars, statVars, histVars>>

\* (define-read-only (get-total-donations))
get_total_donations == Ok(total_donations)

\* (define-read-only (get-donor-amount (donor principal)))
get_donor_amount(donor) == Ok(get_donor(donations, donor))

\* The contract right after its deployment, on a ledger.
Deployed(ledger) ==
    /\ stx_balance = ledger
    /\ total_donations = 0
    /\ donations = NoDonations
    /\ dlog = <<>>

\* The server has just started: no registrations.json, no call in flight.
Started ==
    /\ fileExists = FALSE
    /\ file = <<>>
    /\ now = 0
    /\ calls = 0
    /\ rpc = [p \in RegProcs |-> "idle"]
    /\ rreq = [p \in RegProcs |-> NoCall]
    /\ rlocal = [p \in RegProcs |-> <<>>]
    /\ rmsg = [p \in RegProcs |-> ""]
    /\ rbefore = [p \in RegProcs |-> <<>>]
    /\ rprev = [p \in RegProcs |-> NoCall]
    /\ rover = [p \in RegProcs |-> NoCall]
    /\ last = NoCall
    /\ wpc = "idle"
    /\ wpayload = NoCall
    /\ wmap = NoMap
    /\ wpos = <<0, 0, 0>>
    /\ wres = 0
    /\ wbefore = <<>>
    /\ sinkLog = <<>>
    /\ wthrew = FALSE
    /\ wsent = 0
    /\ spc = "idle"
    /\ sres = NoCall
    /\ registered = {}
    /\ persisted = <<>>

\* The server has just started and the contract has just been deployed; the
\* server never reads the ledger.
Init == Started /\ Deployed([p \in Principals |-> 0])

\* Two clients call POST /api/register concurrently.  The file system
\* works: every read of an existing file and every write succeeds.
Next ==
    \/ \E p \in RegProcs, address \in SomeAddresses, email \in SomeEmails :
            calls < MaxCalls /\ RegisterReceive(p, address, email)
    \/ \E p \in RegProcs : RegisterLoad(p, TRUE)
    \/ \E p \in RegProcs : RegisterSave(p, TRUE)
    \/ Tick

Spec == Init /\ [][Next]_vars

\* One client calls POST /api/register, one call at a time, with any body.
NextOneClient ==
    \/ \E address \in AnyAddresses, email \in AnyEmails :
            calls < MaxCalls /\ RegisterReceive("r1", address, email)
    \/ RegisterLoad("r1", TRUE)
    \/ RegisterSave("r1", TRUE)
    \/ Tick

SpecOneClient == Init /\ [][NextOneClient]_vars

\* The webhook receives batches while one client registers valid bodies.
\* A sink call may fail.
NextWebhook ==
    \/ \E address \in ValidAddresses, email \in ValidEmails :
            calls < MaxCallsWebhook /\ RegisterReceive("r1", address, email)
    \/ RegisterLoad("r1", TRUE)
    \/ RegisterSave("r1", TRUE)
    \/ \E payload \in Payloads : WebhookReceive(payload)
    \/ WebhookLoad(TRUE)
    \/ \E ok \in BOOLEAN : WebhookSinkReturn(ok)

SpecWebhook == Init /\ [][NextWebhook]_vars

\* GET /api/status is called while one client registers valid bodies, one
\* call at a time.
NextStatus ==
    \/ \E address \in ValidAddresses, email \in ValidEmails :
            calls < MaxCalls /\ RegisterReceive("r1", address, email)
    \/ RegisterLoad("r1", TRUE)
    \/ RegisterSave("r1", TRUE)
    \/ StatusReceive
    \/ StatusLoad(TRUE)

SpecStatus == Init /\ [][NextStatus]_vars

\* The batches sent to the webhook when the file system may fail.
FaultPayloads ==
    { WithRollback(OneTx(<<EvT1>>), <<"block">>), NoApply, Payload(<<>>),
      OneTx(<<EvT1, EvT2>>), OneTx(<<EvNoData, EvT1>>),
      Payload(<<Block(<<TxNoId, Tx("0x1", <<EvT1>>)>>)>>),
      Payload(<<BlockNoTransactions, Block(<<Tx("0x1", <<EvT1>>)>>)>>) }

\* The webhook and one registering client with a file system that may
\* fail: a read of the registry file or a write of it may throw, and so may
\* a sink call.
NextFaults ==
    \/ \E address \in ValidAddresses, email \in ValidEmails :
            calls < MaxCallsWebhook /\ RegisterReceive("r1", address, email)
    \/ \E ok \in BOOLEAN : RegisterLoad("r1", ok)
    \/ \E ok \in BOOLEAN : RegisterSave("r1", ok)
    \/ \E payload \in FaultPayloads : WebhookReceive(payload)
    \/ \E ok \in BOOLEAN : WebhookLoad(ok)
    \/ \E ok \in BOOLEAN : WebhookSinkReturn(ok)

SpecFaults == Init /\ [][NextFaults]_vars

\* The places <<block, transaction, event>> of the STXTransferEvent events of
\* a batch.
TransferPositions(payload) ==
    IF ~payload.hasApply THEN {}
    ELSE UNION {UNION {{<<b, t, e>> :
                          e \in {k \in 1..Len(payload.apply[b].transactions[t].events) :
                                   /\ payload.apply[b].transactions[t].hasMetadata
                                   /\ payload.apply[b].transactions[t].hasReceipt
                                   /\ payload.apply[b].transactions[t].hasEvents
                                   /\ payload.apply[b].transactions[t].events[k].type
                                        = "STXTransferEvent"}} :
                       t \in IF payload.apply[b].hasTransactions
                             THEN 1..Len(payload.apply[b].transactions) ELSE {}} :
                b \in 1..Len(payload.apply)}

\* The step in which the read of the registry file the webhook awaits
\* returns or fails: the only steps of the handler that leave "load" are
\* those of WebhookLoad.
LoadSettles == wpc = "load" /\ wpc' \in {"idle", "send"}

\* The step in which the sink call the webhook awaits resolves or rejects:
\* the only steps that settle the pending entry of the log are those of
\* WebhookSinkReturn, which go on to a later event or end the handler.
SinkSettles ==
    /\ wpc = "send"
    /\ wpc' \in {"idle", "send"}
    /\ wpos' \in TransferPositions(wpayload) \cup {<<0, 0, 0>>}

\* The same, where every read of the registry file and every sink call the
\* webhook awaits eventually returns or fails.
SpecLive ==
    /\ Init
    /\ [][NextFaults]_vars
    /\ WF_wpc(LoadSettles)
    /\ WF_<<wpc, wpos>>(SinkSettles)

\* GET /api/status and one registering client with a file system that may
\* fail.
NextStorage ==
    \/ \E address \in ValidAddresses, email \in ValidEmails :
            calls < MaxCalls /\ RegisterReceive("r1", address, email)
    \/ \E ok \in BOOLEAN : RegisterLoad("r1", ok)
    \/ \E ok \in BOOLEAN : RegisterSave("r1", ok)
    \/ StatusReceive
    \/ \E ok \in BOOLEAN : StatusLoad(ok)

SpecStorage == Init /\ [][NextStorage]_vars

\* The two handlers that only read the registry, the webhook and the status
\* call, while one client registers an address and changes its email.  Their
\* reads of the file may fail, and so may a sink call.
NextReaders ==
    \/ \E email \in ValidEmails :
            calls < MaxCallsWebhook /\ RegisterReceive("r1", AddrST1, email)
    \/ RegisterLoad("r1", TRUE)
    \/ RegisterSave("r1", TRUE)
    \/ \E payload \in FaultPayloads : WebhookReceive(payload)
    \/ \E ok \in BOOLEAN : WebhookLoad(ok)
    \/ \E ok \in BOOLEAN : WebhookSinkReturn(ok)
    \/ StatusReceive
    \/ \E ok \in BOOLEAN : StatusLoad(ok)

SpecReaders == Init /\ [][NextReaders]_vars

\* The largest group of millions of STX in the amounts sent to the webhook.
MaxMega == 8589

\* The amounts of the transfers, from nothing to above 2^33 STX
\* (8589 934592 STX).
Amounts ==
    {<<g, w, f>> : g \in {0, MaxMega},
                   w \in {0, 5, 16, 934592, 999999},
                   f \in {0, 1, 2, 3, 500000, 999999}}

\* The webhook receives one transfer of any amount to an address that one
\* client registers.
NextAmount ==
    \/ calls < MaxCallsWebhook /\ RegisterReceive("r1", AddrST1, MailA)
    \/ RegisterLoad("r1", TRUE)
    \/ RegisterSave("r1", TRUE)
    \/ \E amount \in Amounts :
            WebhookReceive(OneTx(<<Transfer(AddrST1, amount)>>))
    \/ WebhookLoad(TRUE)
    \/ WebhookSinkReturn(TRUE)

SpecAmount == Init /\ [][NextAmount]_vars

\* What an account may hold when the contract is deployed, in micro-STX:
\* nothing, just less than one donation, exactly one, two and a half.
Funds == {0, 999999, 1000000, 2500000}

\* Any principal calls donate, on any ledger.
InitDonation ==
    /\ Started
    /\ \E ledger \in [Principals -> Funds] : Deployed(ledger)

NextDonation == \E caller \in Principals : donate(caller)

SpecDonation == InitDonation /\ [][NextDonation]_vars

\* ------------------------------------------------------------------ claims

HasRecognizedPrefix(address) ==
    StartsWith(address, <<"S", "T">>) \/ StartsWith(address, <<"S", "P">>)

\* local@domain.tld: the text splits into a non-empty local part, "@", a
\* non-empty domain, "." and a non-empty tld, none holding a space or an "@".
Clean(s) == \A k \in 1..Len(s) : s[k] # " " /\ s[k] # "@"

MatchesLocalAtDomainTld(email) ==
    /\ email # Undefined
    /\ \E a \in 2..Len(email), d \in 3..Len(email) :
        /\ a < d - 1
        /\ d < Len(email)
        /\ email[a] = "@"
        /\ email[d] = "."
        /\ Clean(SubSeq(email, 1, a - 1))
        /\ Clean(SubSeq(email, a + 1, d - 1))
        /\ Clean(SubSeq(email, d + 1, Len(email)))

ValidBody(address, email) ==
    /\ ~Falsy(address) /\ ~Falsy(email)
    /\ HasRecognizedPrefix(address)
    /\ MatchesLocalAtDomainTld(email)

\* C1: in every reachable state, whatever the interleaving of the register
\* calls, no two entries of the persisted registry have the same address.
C1_UniqueAddresses ==
    \A i, j \in 1..Len(file) : i # j => file[i].address # file[j].address

\* Two overlapping calls for the same unregistered address have both created
\* it, and the registry holds it once.
C1_Witness ==
    /\ last # NoCall
    /\ last.body = MsgCreated
    /\ last.over # NoCall
    /\ last.over.address = last.address
    /\ last.entryBefore = NoCall
    /\ Len(file) = 1
    /\ file[1].address = last.address

\* C2: when a call for one address is answered 200 and a call for another
\* address was answered 200 while it ran, the registry it leaves holds both
\* addresses: no successful write is dropped.
C2_NoLostWrite ==
    (/\ last # NoCall
     /\ last.status = 200
     /\ last.over # NoCall
     /\ last.over.address # last.address)
    => {last.address, last.over.address} \subseteq last.addrsAfter

\* C3: a call that repeats the address and email of the call answered 200
\* just before it (no other call answered 200 in between) is answered 200
\* with the no-change message, and the registry is as long as that call left
\* it.
C3_Idempotent ==
    (/\ last # NoCall
     /\ last.prev # NoCall
     /\ last.over = NoCall
     /\ last.prev.address = last.address
     /\ last.prev.email = last.email)
    => /\ last.status = 200
       /\ last.body = MsgUnchanged
       /\ last.sizeAfter = last.prev.size

\* The pair was first created, then repeated while the registry held another
\* address too.
C3_Witness ==
    /\ last # NoCall
    /\ last.prev # NoCall
    /\ last.over = NoCall
    /\ last.prev.address = last.address
    /\ last.prev.email = last.email
    /\ last.body = MsgUnchanged
    /\ last.sizeAfter = 2

\* C4: a call with a valid body for an address the registry it read holds
\* with another email is answered 200 "Email updated", and the registry it
\* leaves is as long as the one it read and holds the address with the
\* call's email and an updatedAt.
C4_UpdateInPlace ==
    (/\ last # NoCall
     /\ ValidBody(last.address, last.email)
     /\ last.entryBefore # NoCall
     /\ last.entryBefore.email # last.email)
    => /\ last.status = 200
       /\ last.body = MsgUpdated
       /\ last.sizeAfter = last.sizeBefore
       /\ last.entryAfter # NoCall
       /\ last.entryAfter.email = last.email
       /\ last.entryAfter.updatedAt # NoTime

\* An email was changed in a registry of two addresses, and the file holds
\* the new email.
C4_Witness ==
    /\ last # NoCall
    /\ last.body = MsgUpdated
    /\ last.sizeBefore = 2
    /\ Len(file) = 2
    /\ EntryOf(file, last.address) # NoCall
    /\ EntryOf(file, last.address).email = last.email
    /\ EntryOf(file, last.address).updatedAt # NoTime

\* C5: a call whose address (a string) starts with neither "ST" nor "SP" is
\* answered 400 with a validation error, and has neither read nor written
\* the registry file.
C5_BadPrefixRejected ==
    (/\ last # NoCall
     /\ last.address # Undefined
     /\ ~HasRecognizedPrefix(last.address))
    => /\ last.status = 400
       /\ last.body \in {MsgRequired, MsgBadAddress}
       /\ ~last.read
       /\ ~last.wrote
       /\ last.addrsAfter = Addresses(Registry)

\* "SX3" was refused while the registry held an address.
C5_Witness ==
    /\ last # NoCall
    /\ last.address = AddrBad
    /\ last.email \in ValidEmails
    /\ last.status = 400
    /\ last.body = MsgBadAddress
    /\ Len(file) >= 1

\* C6: a call with a missing or empty address or email is answered 400
\* "required"; otherwise one with an unrecognized prefix 400 "address
\* format"; otherwise one whose email is not local@domain.tld 400 "email
\* format"; none of them reads or writes the registry file.
C6_ValidationMessages ==
    (last # NoCall /\ ~ValidBody(last.address, last.email))
    => /\ last.status = 400
       /\ ~last.read
       /\ ~last.wrote
       /\ last.body =
            IF Falsy(last.address) \/ Falsy(last.email) THEN MsgRequired
            ELSE IF ~HasRecognizedPrefix(last.address) THEN MsgBadAddress
            ELSE MsgBadEmail

\* An email without a tld was refused with the email message while the
\* registry held an address.
C6_Witness ==
    /\ last # NoCall
    /\ last.address \in ValidAddresses
    /\ last.email = MailNoDot
    /\ last.status = 400
    /\ last.body = MsgBadEmail
    /\ Len(file) >= 1

\* C7: a call answered 200 carries one of the three messages: "Registration
\* successful" exactly when the registry it read did not hold the address,
\* "Email updated" exactly when it held it with another email, "already
\* registered" exactly when it held it with the same email.
C7_ThreeOutcomes ==
    (last # NoCall /\ last.status = 200)
    => /\ last.body \in {MsgCreated, MsgUpdated, MsgUnchanged}
       /\ last.body = MsgCreated <=> last.entryBefore = NoCall
       /\ last.body = MsgUpdated <=>
            (last.entryBefore # NoCall /\ last.entryBefore.email # last.email)
       /\ last.body = MsgUnchanged <=>
            (last.entryBefore # NoCall /\ last.entryBefore.email = last.email)

\* A second address was created in a registry that held another one.
C7_Witness ==
    /\ last # NoCall
    /\ last.status = 200
    /\ last.body = MsgCreated
    /\ last.sizeBefore = 1
    /\ last.sizeAfter = 2

TxAt(payload, pos) == payload.apply[pos[1]].transactions[pos[2]]

EventAt(payload, pos) == TxAt(payload, pos).events[pos[3]]

\* Payload order: block, then transaction, then event.
Before(p, q) ==
    \/ p[1] < q[1]
    \/ p[1] = q[1] /\ p[2] < q[2]
    \/ p[1] = q[1] /\ p[2] = q[2] /\ p[3] < q[3]

\* Every transfer event has its data and every transaction its identifier.
WellFormed(payload) ==
    \A pos \in TransferPositions(payload) :
        EventAt(payload, pos).hasData /\ TxAt(payload, pos).hasId

\* The transfer events of the batch whose recipient the registry holds.
Matching(payload, registry) ==
    {pos \in TransferPositions(payload) :
        /\ EventAt(payload, pos).hasData
        /\ EventAt(payload, pos).recipient \in Addresses(registry)}

SinkCalls(pos) == {i \in 1..Len(sinkLog) : sinkLog[i].pos = pos}

HasRollback(payload) == payload.hasRollback /\ payload.rollback # <<>>

Answered == wpayload # NoCall /\ wpc = "idle" /\ wres = 200

\* C8: a webhook call whose payload has a non-empty rollback array is
\* answered 200 at once and calls the sink for no event, whatever its apply
\* array and the registry hold.
C8_RollbackSilent ==
    (wpayload # NoCall /\ HasRollback(wpayload))
    => /\ sinkLog = <<>>
       /\ wpc = "idle"
       /\ wres = 200

\* A rollback batch whose apply array pays a registered address was answered.
C8_Witness ==
    /\ wpayload # NoCall
    /\ HasRollback(wpayload)
    /\ Matching(wpayload, Registry) # {}
    /\ wres = 200

\* C9: when a well-formed batch without rollback has been answered, the sink
\* was called exactly once for each transfer event whose recipient the
\* registry read by the call holds, with the email registered for that
\* recipient, and for no other event.
C9_OncePerRegisteredRecipient ==
    (Answered /\ ~HasRollback(wpayload) /\ WellFormed(wpayload))
    => /\ \A pos \in Matching(wpayload, wbefore) :
            /\ Cardinality(SinkCalls(pos)) = 1
            /\ \A i \in SinkCalls(pos) :
                /\ sinkLog[i].message.recipient = EventAt(wpayload, pos).recipient
                /\ sinkLog[i].message.to =
                        EntryOf(wbefore, EventAt(wpayload, pos).recipient).email
       /\ \A i \in 1..Len(sinkLog) : sinkLog[i].pos \in Matching(wpayload, wbefore)

\* Two transfers to two registered recipients gave two notifications, to two
\* different emails.
C9_Witness ==
    /\ Answered
    /\ ~HasRollback(wpayload)
    /\ WellFormed(wpayload)
    /\ Len(sinkLog) = 2
    /\ sinkLog[1].message.recipient # sinkLog[2].message.recipient
    /\ sinkLog[1].message.to # sinkLog[2].message.to

\* An unregistered recipient gave no notification and the call answered 200.
C9_WitnessUnregistered ==
    /\ Answered
    /\ WellFormed(wpayload)
    /\ TransferPositions(wpayload) # {}
    /\ wbefore # <<>>
    /\ Matching(wpayload, wbefore) = {}
    /\ sinkLog = <<>>

\* C10: when a batch has been answered, a sink call that failed was made
\* once (no retry), and the sink was called once for every later transfer
\* event to a registered recipient that the batch reaches whatever the sink
\* does: one whose transaction has its identifier and that comes after no
\* transfer event without data.
C10_SinkFailureIsolated ==
    Answered
    => \A i \in 1..Len(sinkLog) :
          sinkLog[i].outcome = "failed"
          => /\ Cardinality(SinkCalls(sinkLog[i].pos)) = 1
             /\ \A q \in Matching(wpayload, wbefore) :
                   (/\ Before(sinkLog[i].pos, q)
                    /\ TxAt(wpayload, q).hasId
                    /\ \A r \in TransferPositions(wpayload) :
                          Before(r, q) => EventAt(wpayload, r).hasData)
                   => Cardinality(SinkCalls(q)) = 1

\* The first of three sink calls failed and the other two were made.
C10_Witness ==
    /\ Answered
    /\ Len(sinkLog) = 3
    /\ sinkLog[1].outcome = "failed"
    /\ sinkLog[2].outcome = "sent"
    /\ sinkLog[3].outcome = "failed"

\* C11: a webhook call never answers anything but 200: whatever the batch
\* holds, whether the registry could be read and whatever the sink did, the
\* call that has been answered was answered 200.
C11_AlwaysAcknowledged ==
    /\ wres \in {0, 200}
    /\ (wpayload # NoCall /\ wpc = "idle") => wres = 200

\* A transfer event without data threw into the outer catch while the
\* registry held an entry, and the call was answered 200.
C11_Witness ==
    /\ Answered
    /\ wthrew
    /\ wbefore # <<>>

\* The registry holds an entry, the read of the file failed, and the call
\* was answered 200 without any sink call.
C11_WitnessReadFailure ==
    /\ Answered
    /\ ~HasRollback(wpayload)
    /\ Matching(wpayload, wbefore) # {}
    /\ wmap = NoMap
    /\ sinkLog = <<>>

\* A sink call failed and the call was answered 200.
C11_WitnessSinkFailure ==
    /\ Answered
    /\ Len(sinkLog) > 0
    /\ sinkLog[Len(sinkLog)].outcome = "failed"

C12_WitnessWebhook ==
    /\ last # NoCall
    /\ last.status = 500
    /\ last.entryAfter = NoCall
    /\ wmap # NoMap
    /\ last.address \notin DOMAIN wmap
    /\ wbefore = persisted

\* C13: registrations are never deleted: when no register call is in
\* flight, every address a register call answered 200 for is in the
\* registry, also after a register call whose read of the file failed.
C13_NeverDeleted ==
    (\A p \in RegProcs : rpc[p] = "idle")
    => registered \subseteq Addresses(Registry)

\* C14: a status call answers 200 with status "running" and the number of
\* entries of the registry on disk, which is the number of distinct
\* addresses registered successfully when the register calls made so far
\* did not overlap and none is in flight.
C14_StatusCount ==
    sres # NoCall
    => /\ sres.code = 200
       /\ sres.status = "running"
       /\ sres.registrations = sres.at.entries
       /\ sres.at.quiet => sres.registrations = sres.at.distinct

\* Three register calls for two addresses were answered, and the status
\* call counted two.
C14_Witness ==
    /\ sres # NoCall
    /\ sres.at.quiet
    /\ calls = 3
    /\ sres.at.distinct = 2
    /\ sres.registrations = 2

\* A block of the batch has no transactions array, or a transaction has no
\* metadata, no receipt or no events array.
HasHole(payload) ==
    /\ payload.hasApply
    /\ \E b \in 1..Len(payload.apply) :
          \/ ~payload.apply[b].hasTransactions
          \/ \E t \in 1..Len(payload.apply[b].transactions) :
                LET tx == payload.apply[b].transactions[t]
                IN  ~(tx.hasMetadata /\ tx.hasReceipt /\ tx.hasEvents)

\* C15: in an answered batch without rollback whose transfer events have
\* their data and identifier, nothing was thrown to the outer catch, no sink
\* call was made for anything but a transfer event under a block with
\* transactions and a transaction with metadata, receipt and events, and
\* every such event to a registered recipient got its sink call; a batch
\* with no apply array or an empty one got none.
C15_HolesSkipped ==
    (Answered /\ ~HasRollback(wpayload) /\ WellFormed(wpayload))
    => /\ ~wthrew
       /\ \A i \in 1..Len(sinkLog) :
             /\ sinkLog[i].pos \in TransferPositions(wpayload)
             /\ EventAt(wpayload, sinkLog[i].pos).type = "STXTransferEvent"
       /\ \A pos \in Matching(wpayload, wbefore) : SinkCalls(pos) # {}
       /\ NothingToApply(wpayload) => sinkLog = <<>>

\* A batch with a hole was answered, and the transfer event after the hole
\* was sent to the sink.
C15_Witness ==
    /\ Answered
    /\ ~HasRollback(wpayload)
    /\ WellFormed(wpayload)
    /\ HasHole(wpayload)
    /\ Len(sinkLog) = 1
    /\ sinkLog[1].outcome = "sent"
    /\ ~wthrew

\* C16: the amount shown in a notification is the amount of the event in
\* microSTX divided by 1,000,000 without loss: the decimal shown, times
\* 1,000,000, is the amount.
C16_ExactAmount ==
    \A i \in 1..Len(sinkLog) :
        sinkLog[i].message.amountSTX = EventAt(wpayload, sinkLog[i].pos).amount

\* Below a million STX every amount of the model is shown exactly.
C16_ExactBelowMega ==
    \A i \in 1..Len(sinkLog) :
        EventAt(wpayload, sinkLog[i].pos).amount[1] = 0
        => sinkLog[i].message.amountSTX = EventAt(wpayload, sinkLog[i].pos).amount

\* C17: a malformed entry is discarded without affecting the rest of the
\* batch: in an answered batch without rollback no sink call was made for a
\* transfer event without data or under a transaction without identifier,
\* and every well-formed transfer event to a registered recipient got its
\* sink call, wherever the malformed entries stand.
C17_MalformedDiscarded ==
    (Answered /\ ~HasRollback(wpayload))
    => /\ \A i \in 1..Len(sinkLog) :
             /\ EventAt(wpayload, sinkLog[i].pos).hasData
             /\ TxAt(wpayload, sinkLog[i].pos).hasId
       /\ \A pos \in Matching(wpayload, wbefore) :
             TxAt(wpayload, pos).hasId => Cardinality(SinkCalls(pos)) = 1

\* The part of C17 that holds: when every transfer event has its data, a
\* transaction without identifier gets no sink call and the events of the
\* other transactions get theirs.
C17_NoIdentifierDiscarded ==
    (/\ Answered
     /\ ~HasRollback(wpayload)
     /\ \A pos \in TransferPositions(wpayload) : EventAt(wpayload, pos).hasData)
    => /\ ~wthrew
       /\ \A i \in 1..Len(sinkLog) : TxAt(wpayload, sinkLog[i].pos).hasId
       /\ \A pos \in Matching(wpayload, wbefore) :
             TxAt(wpayload, pos).hasId => Cardinality(SinkCalls(pos)) = 1

\* C18: a webhook call dispatches against the registry it read once: its
\* addressMap is that of the registry on disk when it was read, whatever
\* register calls do meanwhile, and every sink call is for an event whose
\* recipient that registry holds, to the email that registry holds.
C18_Snapshot ==
    wmap # NoMap
    => /\ DOMAIN wmap = Addresses(wbefore)
       /\ \A a \in DOMAIN wmap : wmap[a] = EntryOf(wbefore, a).email
       /\ \A i \in 1..Len(sinkLog) :
             /\ sinkLog[i].pos \in Matching(wpayload, wbefore)
             /\ sinkLog[i].message.to =
                    EntryOf(wbefore, sinkLog[i].message.recipient).email

\* A register call changed the email of the recipient while the webhook
\* call was sending: the second notification still went to the email that
\* was read, not to the one on disk.
C18_Witness ==
    /\ Answered
    /\ Len(sinkLog) = 2
    /\ sinkLog[1].disk = sinkLog[1].message.to
    /\ sinkLog[2].message.recipient = sinkLog[1].message.recipient
    /\ sinkLog[2].disk # sinkLog[2].message.to
    /\ sinkLog[2].message.to = sinkLog[1].message.to

\* C19: a register call that found its address in the registry with the
\* email of the request answered 200 "Address already registered with this
\* email" without writing the file, and the entry (email, createdAt,
\* updatedAt or its absence) and the size of the registry are as they were.
C19_SameEmailNoWrite ==
    (/\ last # NoCall
     /\ last.read
     /\ last.entryBefore # NoCall
     /\ last.entryBefore.email = last.email)
    => /\ last.status = 200
       /\ last.body = MsgUnchanged
       /\ ~last.wrote
       /\ last.entryAfter = last.entryBefore
       /\ last.sizeAfter = last.sizeBefore

\* An address was registered again with its email after the clock had moved
\* on: the entry keeps its createdAt and still has no updatedAt.
C19_Witness ==
    /\ last # NoCall
    /\ last.body = MsgUnchanged
    /\ ~last.wrote
    /\ last.entryAfter.createdAt < now
    /\ last.entryAfter.updatedAt = NoTime

\* The same for an entry whose email had been updated before: its updatedAt
\* is kept.
C19_WitnessUpdated ==
    /\ last # NoCall
    /\ last.body = MsgUnchanged
    /\ last.entryAfter.updatedAt # NoTime

\* What one step of a register call for the address may do to the registry
\* on disk: every entry stays at its position with its address and its
\* createdAt, every entry of another address stays as it was, and at most
\* one entry, for the address, is added at the end.
OnlyTouches(old, new, address) ==
    /\ Len(new) \in {Len(old), Len(old) + 1}
    /\ \A i \in 1..Len(old) :
          /\ new[i].address = old[i].address
          /\ new[i].createdAt = old[i].createdAt
          /\ old[i].address # address => new[i] = old[i]
    /\ Len(new) = Len(old) + 1 => new[Len(new)].address = address

\* C20: with one register call at a time and a working file system, a
\* register call for address A changes at most the entry of A: in every
\* step the entries of the other addresses keep their address, email,
\* createdAt, updatedAt and position, the entry of A keeps its createdAt
\* and position, and nothing changes when no register call is in flight.
C20_OnlyOwnEntry ==
    [][IF rpc["r1"] = "idle"
       THEN Registry' = Registry
       ELSE OnlyTouches(Registry, Registry', rreq["r1"].address)]_vars

\* The email of the first of two entries was updated after the clock had
\* moved on: the entry has its createdAt and a later updatedAt, and the
\* registry still has two entries.
C20_Witness ==
    /\ last # NoCall
    /\ last.body = MsgUpdated
    /\ last.sizeBefore = 2
    /\ last.sizeAfter = 2
    /\ Registry[1].address = last.address
    /\ last.entryAfter.createdAt = last.entryBefore.createdAt
    /\ last.entryAfter.updatedAt > last.entryAfter.createdAt

\* C21: the webhook and the status call only read the registry: no step of
\* either, on any path, creates or changes the registry file.
C21_ReadersDoNotWrite ==
    [][(hookVars' # hookVars \/ statVars' # statVars)
       => UNCHANGED <<fileExists, file>>]_vars

\* With an entry in the registry, a webhook call whose sink call failed or
\* that threw on an event without data, and a status call, have
\* been answered.
C21_Witness ==
    /\ Registry # <<>>
    /\ Answered
    /\ sres # NoCall
    /\ sres.registrations = 1
    /\ \/ wthrew
       \/ Len(sinkLog) > 0 /\ sinkLog[Len(sinkLog)].outcome = "failed"

\* C22: whatever the interleaving of the register calls, every entry of the
\* registry on disk, and of every array a call is about to save, has an
\* address that begins with "ST" or "SP" and a non-empty email of the form
\* local@domain.tld; a call answered 400 has neither read nor written the
\* file.
C22_StoredEntriesValid ==
    /\ \A i \in 1..Len(Registry) :
          /\ HasRecognizedPrefix(Registry[i].address)
          /\ Registry[i].email # <<>>
          /\ MatchesLocalAtDomainTld(Registry[i].email)
    /\ \A p \in RegProcs : \A i \in 1..Len(rlocal[p]) :
          /\ HasRecognizedPrefix(rlocal[p][i].address)
          /\ MatchesLocalAtDomainTld(rlocal[p][i].email)
    /\ (last # NoCall /\ last.status = 400) => ~last.read /\ ~last.wrote

\* A request that fails validation was answered 400 while the registry held
\* an entry and the other client's call was about to save.
C22_Witness ==
    /\ Len(Registry) = 1
    /\ last # NoCall
    /\ last.status = 400
    /\ \E p \in RegProcs : rpc[p] = "save"

\* C23: within a webhook call the sink is called for one event at a time
\* and in payload order: only the last sink call can be pending, and it is
\* exactly while the call awaits it; every sink call is for a later event
\* than the one before (block, then transaction, then event); and the call
\* that has been answered has no sink call pending.
C23_Sequential ==
    /\ \A i \in 1..Len(sinkLog) :
          sinkLog[i].outcome = "pending" <=> (i = Len(sinkLog) /\ wpc = "send")
    /\ \A i, j \in 1..Len(sinkLog) :
          i < j => Before(sinkLog[i].pos, sinkLog[j].pos)
    /\ wpc = "send" => wres = 0 /\ sinkLog # <<>>
    /\ wres = 200 => \A i \in 1..Len(sinkLog) : sinkLog[i].outcome # "pending"

\* The first sink call has failed, the second is awaited and the call has
\* not answered yet.
C23_Witness ==
    /\ wpc = "send"
    /\ wres = 0
    /\ Len(sinkLog) = 2
    /\ sinkLog[1].outcome = "failed"
    /\ sinkLog[2].outcome = "pending"

\* C24: a webhook call that has arrived is eventually answered, given that
\* the read of the registry and every sink call it awaits return or fail;
\* and it is answered exactly once: a call in flight has sent no response
\* and a call that is over has sent one.
C24_AnsweredOnce ==
    /\ [](/\ wsent \in {0, 1}
          /\ wpc # "idle" => wsent = 0 /\ wres = 0
          /\ (wpc = "idle" /\ wpayload # NoCall) => wsent = 1 /\ wres # 0)
    /\ (wpc # "idle") ~> (wpc = "idle" /\ wsent = 1 /\ wres = 200)

\* A call whose two sink calls failed has sent its one response.
C24_Witness ==
    /\ Answered
    /\ wsent = 1
    /\ Len(sinkLog) = 2
    /\ \A i \in 1..2 : sinkLog[i].outcome = "failed"

\* The sum of the entries of a map over a set of its keys.
RECURSIVE SumOver(_, _)
SumOver(map, keys) ==
    IF keys = {} THEN 0
    ELSE LET p == CHOOSE q \in keys : TRUE
         IN  map[p] + SumOver(map, keys \ {p})

\* The number of donate calls of a principal that returned (ok ...).
SuccessfulDonations(donor) ==
    Cardinality({i \in 1..Len(dlog) : dlog[i].caller = donor /\ dlog[i].isOk})

\* C25: total-donations equals the sum of the amounts recorded in the
\* donations map, and every recorded amount is a positive multiple of
\* 1,000,000: 1,000,000 times the number of successful donate calls of that
\* donor.  A principal without an entry has no successful call, and the
\* read-only functions return these values.
C25_TotalIsSum ==
    /\ total_donations = SumOver(donations, DOMAIN donations)
    /\ get_total_donations.value = SumOver(donations, DOMAIN donations)
    /\ \A d \in DOMAIN donations :
            /\ donations[d] > 0
            /\ donations[d] % 1000000 = 0
            /\ donations[d] = 1000000 * SuccessfulDonations(d)
    /\ \A d \in Principals :
            /\ get_donor_amount(d).isOk
            /\ get_donor_amount(d).value = 1000000 * SuccessfulDonations(d)

\* Two donors are recorded, one of them after two donations.
C25_Witness ==
    /\ Cardinality(DOMAIN donations) = 2
    /\ \E d \in DOMAIN donations : donations[d] = 2000000
    /\ total_donations = 3000000

\* C26: donate fails with (err u100) when the caller holds less than
\* 1,000,000 micro-STX; a failing call, for an insufficient balance or for a
\* transfer that stx-transfer? rejects (the owner donating to themselves),
\* leaves total-donations, the map and every balance as they were; a
\* successful call moves exactly 1,000,000 micro-STX from the caller to the
\* contract owner.
C26_DonateOutcomes ==
    \A i \in 1..Len(dlog) :
        LET call == dlog[i]
        IN  /\ call.before.balance[call.caller] < 1000000
                => ~call.isOk /\ call.value = 100
            /\ call.caller = contract_owner => ~call.isOk
            /\ ~call.isOk => call.after = call.before
            /\ call.isOk =>
                /\ call.caller # contract_owner
                /\ call.after.balance[call.caller]
                      = call.before.balance[call.caller] - 1000000
                /\ call.after.balance[contract_owner]
                      = call.before.balance[contract_owner] + 1000000
                /\ \A p \in Principals \ {call.caller, contract_owner} :
                      call.after.balance[p] = call.before.balance[p]
            /\ i = Len(dlog) => call.after = ChainState
            /\ i < Len(dlog) => call.after = dlog[i + 1].before

\* A call failed for the balance, the owner's call was rejected by the
\* transfer, and a call succeeded.
C26_Witness ==
    /\ \E i \in 1..Len(dlog) : ~dlog[i].isOk /\ dlog[i].value = 100
    /\ \E i \in 1..Len(dlog) :
            /\ dlog[i].caller = contract_owner
            /\ dlog[i].before.balance[contract_owner] >= 1000000
            /\ ~dlog[i].isOk
            /\ dlog[i].value = 2
    /\ \E i \in 1..Len(dlog) : dlog[i].isOk

=============================================================================
